---------------------------- MODULE Spec2Model ----------------------------
(***************************************************************************)
(* Multi-attempt answer generation of the TDS exam helper.                 *)
(*                                                                         *)
(* The repository holds two variants of the same React component:          *)
(*   "component" : src/src/components/TDSExamHelper.jsx                    *)
(*   "main"      : src/src/main.jsx                                        *)
(* The model follows both; `variant` selects the one that is mounted.      *)
(*                                                                         *)
(* Strings that the code inspects character by character (the question,    *)
(* the raw responses) are tuples of one-character strings; messages that   *)
(* are only stored and shown are TLA+ strings.                             *)
(*                                                                         *)
(* JavaScript runs every handler to its next `await`, so each action is    *)
(* one such uninterrupted segment of handleSubmit or one UI event.         *)
(***************************************************************************)
EXTENDS Integers, Sequences, FiniteSets, TLC

(***************************************************************************)
(* Bounds of the exploration.                                              *)
(***************************************************************************)
\* number of handleSubmit invocations (clicks on the submit button) explored
MaxSubmits == 3

\* largest attempt count explored when the count is not limited to the
\* options of the select (SpecAnyCount)
MaxCount == 3

(***************************************************************************)
(* Text helpers.                                                           *)
(***************************************************************************)
\* characters String.prototype.trim() strips
WhiteSpace == {" ", "\n", "\t"}

RECURSIVE TrimStart(_)
TrimStart(s) ==
    IF s = <<>> THEN <<>>
    ELSE IF Head(s) \in WhiteSpace THEN TrimStart(Tail(s)) ELSE s

RECURSIVE TrimEnd(_)
TrimEnd(s) ==
    IF s = <<>> THEN <<>>
    ELSE IF s[Len(s)] \in WhiteSpace THEN TrimEnd(SubSeq(s, 1, Len(s) - 1)) ELSE s

\* String.prototype.trim()
Trim(s) == TrimEnd(TrimStart(s))

UpperLetters ==
    <<"A", "B", "C", "D", "E", "F", "G", "H", "I", "J", "K", "L", "M",
      "N", "O", "P", "Q", "R", "S", "T", "U", "V", "W", "X", "Y", "Z">>

LowerLetters ==
    <<"a", "b", "c", "d", "e", "f", "g", "h", "i", "j", "k", "l", "m",
      "n", "o", "p", "q", "r", "s", "t", "u", "v", "w", "x", "y", "z">>

\* one character of String.prototype.toLowerCase()
LowerChar(c) ==
    IF \E k \in DOMAIN UpperLetters : UpperLetters[k] = c
    THEN LowerLetters[CHOOSE k \in DOMAIN UpperLetters : UpperLetters[k] = c]
    ELSE c

\* String.prototype.toLowerCase()
ToLowerCase(s) == [k \in 1..Len(s) |-> LowerChar(s[k])]

\* the smallest member of a non-empty set of integers
Min(S) == CHOOSE x \in S : \A y \in S : x <= y

\* the largest member of a non-empty set of integers
Max(S) == CHOOSE x \in S : \A y \in S : x >= y

(***************************************************************************)
(* parseAnswer.  Positions are 1-based; the regular expressions are        *)
(* evaluated as the engine evaluates them: leftmost start, the greedy \s*  *)
(* giving characters back, the lazy group taking the shortest capture      *)
(* whose lookahead succeeds.                                               *)
(***************************************************************************)
\* the literal \*\*FINAL ANSWER:\*\* of the first expression
FinalMarker ==
    <<"*", "*", "F", "I", "N", "A", "L", " ",
      "A", "N", "S", "W", "E", "R", ":", "*", "*">>

\* the literal Confidence: of both expressions
ConfidenceLabel ==
    <<"C", "o", "n", "f", "i", "d", "e", "n", "c", "e", ":">>

\* the literal `lit` matches at position p of s under the i flag
MatchesAt(s, p, lit) ==
    /\ p >= 1
    /\ p + Len(lit) - 1 <= Len(s)
    /\ \A k \in 1..Len(lit) : LowerChar(s[p + k - 1]) = LowerChar(lit[k])

\* number of consecutive \s characters of s from position q on
RECURSIVE SpaceRun(_, _)
SpaceRun(s, q) ==
    IF q <= Len(s) /\ s[q] \in WhiteSpace THEN 1 + SpaceRun(s, q + 1) ELSE 0

\* variation: the group is greedy and runs to the end of the text
FinalAnswerMatch_Greedy(text) ==
    LET starts == {p \in 1..Len(text) :
                     /\ MatchesAt(text, p, FinalMarker)
                     /\ p + Len(FinalMarker) <= Len(text)}
    IN  IF starts = {}
        THEN [found |-> FALSE, index |-> 0, capture |-> <<>>]
        ELSE LET p  == Min(starts)
                 q  == p + Len(FinalMarker)
                 ws == SpaceRun(text, q)
                 c  == IF q + ws <= Len(text) THEN q + ws ELSE Len(text)
             IN  [found |-> TRUE, index |-> p - 1,
                  capture |-> SubSeq(text, c, Len(text))]

\* text.match(/\*\*FINAL ANSWER:\*\*\s*(.+?)(?=\n\n|Confidence:|$)/is):
\* found is FALSE for null, index is the 0-based match index, capture is
\* group 1.  With the s flag the group accepts any character, so a start
\* succeeds as soon as one character follows the marker.
FinalAnswerMatch(text) ==
    LET starts == {p \in 1..Len(text) :
                     /\ MatchesAt(text, p, FinalMarker)
                     /\ p + Len(FinalMarker) <= Len(text)}
    IN  IF starts = {}
        THEN [found |-> FALSE, index |-> 0, capture |-> <<>>]
        ELSE LET p  == Min(starts)
                 q  == p + Len(FinalMarker)
                 ws == SpaceRun(text, q)
                 c  == IF q + ws <= Len(text) THEN q + ws ELSE Len(text)
                 e  == Min({x \in c..Len(text) :
                              \/ x = Len(text)
                              \/ MatchesAt(text, x + 1, <<"\n", "\n">>)
                              \/ MatchesAt(text, x + 1, ConfidenceLabel)})
             IN  [found |-> TRUE, index |-> p - 1,
                  capture |-> SubSeq(text, c, e)]

\* text.match(/Confidence:\s*(.+?)(?=\n|$)/i): without the s flag the group
\* does not accept a line break, so \s* gives characters back until the
\* group can start on a character other than a line break.
ConfidenceMatch(text) ==
    LET CapStarts(p) ==
            LET q == p + Len(ConfidenceLabel)
            IN  {q + w : w \in {v \in 0..SpaceRun(text, q) :
                                  q + v <= Len(text) /\ text[q + v] # "\n"}}
        starts == {p \in 1..Len(text) :
                     MatchesAt(text, p, ConfidenceLabel) /\ CapStarts(p) # {}}
    IN  IF starts = {}
        THEN [found |-> FALSE, index |-> 0, capture |-> <<>>]
        ELSE LET p == Min(starts)
                 c == Max(CapStarts(p))
                 e == Min({x \in c..Len(text) :
                             x = Len(text) \/ text[x + 1] = "\n"})
             IN  [found |-> TRUE, index |-> p - 1,
                  capture |-> SubSeq(text, c, e)]

\* variation: the analysis is returned without trimming
ParseAnswer_AnalysisUntrimmed(text) ==
    IF text = <<>>
    THEN [analysis |-> <<>>, answer |-> <<>>, confidence |-> <<>>]
    ELSE LET fm == FinalAnswerMatch(text)
             cm == ConfidenceMatch(text)
         IN  [analysis   |-> IF fm.found THEN SubSeq(text, 1, fm.index)
                                         ELSE text,
              answer     |-> IF fm.found THEN Trim(fm.capture) ELSE <<>>,
              confidence |-> IF cm.found THEN Trim(cm.capture) ELSE <<>>,
              fullText   |-> text]

\* parseAnswer(text)
ParseAnswer(text) ==
    IF text = <<>>
    THEN [analysis |-> <<>>, answer |-> <<>>, confidence |-> <<>>]
    ELSE LET fm == FinalAnswerMatch(text)
             cm == ConfidenceMatch(text)
         IN  [analysis   |-> Trim(IF fm.found THEN SubSeq(text, 1, fm.index)
                                              ELSE text),
              answer     |-> IF fm.found THEN Trim(fm.capture) ELSE <<>>,
              confidence |-> IF cm.found THEN Trim(cm.capture) ELSE <<>>,
              fullText   |-> text]

(***************************************************************************)
(* Inputs.                                                                 *)
(***************************************************************************)
Variants == {"component", "main"}

\* texts the user can type into the question textarea
Questions == { <<>>, <<" ">>, <<"q">>, <<" ", "q", "\n">> }

\* the values of the <option>s of the attempts <select>
AttemptOptions == {2, 3, 5}

\* value of useState(3) for numAttempts
DefaultAttempts == 3

\* texts extractResponseText can hand back for a successful call
Responses == { <<>>, <<"a">> }

\* ways one callAPI invocation can throw once the key is present:
\*   "transport" : fetch rejects          "service" : res.ok is false
FetchFailures == {"transport", "service"}

(***************************************************************************)
(* State.                                                                  *)
(***************************************************************************)
VARIABLES
    variant,      \* which of the two component files is mounted
    apiKey,       \* TRUE iff import.meta.env.VITE_OPENAI_API_KEY is set
    question,     \* useState(""): the textarea's text
    numAttempts,  \* useState(3): the selected attempt count
    attempts,     \* useState([]): the published attempt list
    loading,      \* useState(false)
    error,        \* useState(""): the message shown to the user
    runs,         \* the invocations of handleSubmit that passed validation,
                  \* by submit number, each with its locals (i, results),
                  \* its captured numAttempts (n) and the await it is
                  \* suspended at (pc); the frame of a finished invocation
                  \* is dropped when the next one starts
    calls,        \* history: the callAPI invocations of the runs in `runs`,
                  \* in issue order
    submits,      \* history: number of handleSubmit invocations so far
    submitted     \* history: the question and the attempt count the latest
                  \* handleSubmit invocation read from its closure, and the
                  \* number of attempts that were on screen at that moment

vars == <<variant, apiKey, question, numAttempts, attempts, loading, error,
          runs, calls, submits, submitted>>

(***************************************************************************)
(* Messages.                                                               *)
(***************************************************************************)
\* setError("Please enter a question")
ValidationMessage == "Please enter a question"

\* err.message of what callAPI throws
ErrMessage(v, kind) ==
    CASE kind = "auth" ->
           IF v = "component" THEN "Missing VITE_OPENAI_API_KEY in .env"
           ELSE "OpenAI API key not found in VITE_OPENAI_API_KEY"
      [] kind = "service" ->
           IF v = "component" THEN "OpenAI API failed: 500 "
           ELSE "OpenAI API request failed: 500  "
      [] kind = "transport" -> "Failed to fetch"

\* the argument of setError in the catch block
ShownError(v, msg) == IF v = "component" THEN msg ELSE "Error: " \o msg

\* the ways callAPI can throw in this build
ThrowKinds == IF apiKey THEN FetchFailures ELSE {"auth"}

(***************************************************************************)
(* Pieces of handleSubmit.                                                 *)
(***************************************************************************)
\* variation: the emptiness test without trim()
QuestionBlank_NoTrim(q) == q = <<>>

\* !question.trim()
QuestionBlank(q) == Trim(q) = <<>>

\* variation: the submit button without its disabled attribute
SubmitDisabled_Never == FALSE

\* disabled={loading} on the submit button
SubmitDisabled == loading

\* disabled={loading} on the textarea and on the select
InputsDisabled == loading

\* { attemptNum: i, response: responseText, parsed } with
\* parsed = parseAnswer(responseText)
Attempt(i, text) ==
    [attemptNum |-> i, response |-> text, parsed |-> ParseAnswer(text)]

\* variation: the attempt numbered by its array index
PushResult_ZeroBased(results, i, text) ==
    Append(results, Attempt(Len(results), text))

\* results.push({ attemptNum: i, ... })
PushResult(results, i, text) == Append(results, Attempt(i, text))

\* variation: only the newest attempt is handed to setAttempts
Publish_LastOnly(results) == <<results[Len(results)]>>

\* the argument of setAttempts: [...results]
Publish(results) == results

\* variation: the loop bound off by one, i < numAttempts
LoopCond_Exclusive(i, n) == i < n

\* for (...; i <= numAttempts; ...)
LoopCond(i, n) == i <= n

\* variation: the pause is taken after the last attempt as well
NeedsPause_AfterEvery(i, n) == i <= n

\* if (i < numAttempts) await new Promise(r => setTimeout(r, 500))
NeedsPause(i, n) == i < n

\* temperature of attempt 1, in tenths (0.3)
FirstTemperature == 3

\* temperature of the later attempts, in tenths (0.5)
LaterTemperature == 5

\* max_output_tokens of every request
MaxOutputTokens == 4000

\* the sentence appended to the prompt of the attempts after the first
VerificationDirective(v) ==
    IF v = "component"
    THEN "IMPORTANT: Double-check logic before finalizing answer."
    ELSE "IMPORTANT: Think carefully and verify your answer is correct before responding."

\* variation: the temperature grows with the attempt number
BuildRequest_TemperatureRising(v, q, attemptNum) ==
    [model             |-> "gpt-5",
     input             |-> << "systemPrompt", "\n\nQUESTION:\n", q, "\n\n",
                              IF attemptNum > 1 THEN VerificationDirective(v)
                                                ELSE "" >>,
     temperature       |-> FirstTemperature + attemptNum - 1,
     max_output_tokens |-> MaxOutputTokens]

\* the body callAPI(attemptNum) posts for the question q; input is the
\* template literal, kept as the sequence of its parts
BuildRequest(v, q, attemptNum) ==
    [model             |-> "gpt-5",
     input             |-> << "systemPrompt", "\n\nQUESTION:\n", q, "\n\n",
                              IF attemptNum > 1 THEN VerificationDirective(v)
                                                ELSE "" >>,
     temperature       |-> IF attemptNum = 1 THEN FirstTemperature
                                             ELSE LaterTemperature,
     max_output_tokens |-> MaxOutputTokens]

\* what the history holds for a callAPI that threw before building a body
NoRequest == [none |-> TRUE]

\* a callAPI(i) invocation of run r, made with question q in its closure,
\* enters the history; without a key it throws before the body is built
IssueCall(cs, r, i, q) ==
    Append(cs, [run |-> r, attemptNum |-> i, status |-> "pending",
                err |-> "none",
                request |-> IF apiKey THEN BuildRequest(variant, q, i)
                                      ELSE NoRequest])

\* the pending callAPI(i) of run r returned (st = "ok") or threw
\* (st = "failed", with the kind of the error thrown)
SettleCall(cs, r, i, st, kind) ==
    [k \in DOMAIN cs |->
        IF cs[k].run = r /\ cs[k].attemptNum = i /\ cs[k].status = "pending"
        THEN [cs[k] EXCEPT !.status = st, !.err = kind]
        ELSE cs[k]]

\* variation: callAPI(i) is not awaited, so the loop head goes straight on
\* to invoke callAPI(i + 1) as well
LoopHead_NoAwait(rec, r, i, cs) ==
    IF i <= rec.n
    THEN [run      |-> [rec EXCEPT !.i = i, !.pc = "callAPI"],
          calls    |-> IF i + 1 <= rec.n
                       THEN IssueCall(IssueCall(cs, r, i, rec.question), r, i + 1, rec.question)
                       ELSE IssueCall(cs, r, i, rec.question),
          finished |-> FALSE]
    ELSE [run      |-> [rec EXCEPT !.i = i, !.pc = "done", !.outcome = "completed"],
          calls    |-> cs,
          finished |-> TRUE]

\* variation: handleSubmit leaves the published list as it is
ClearedAttempts_Kept == attempts

\* setAttempts([]) at the start of a run
ClearedAttempts == <<>>

\* variation: the loop exit does not reach the finally block
LoopHead_NoFinally(rec, r, i, cs) ==
    IF i <= rec.n
    THEN [run      |-> [rec EXCEPT !.i = i, !.pc = "callAPI"],
          calls    |-> IssueCall(cs, r, i, rec.question),
          finished |-> FALSE]
    ELSE [run      |-> [rec EXCEPT !.i = i, !.pc = "done", !.outcome = "completed"],
          calls    |-> cs,
          finished |-> FALSE]

\* The head of the for loop with loop variable i: either callAPI(i) is
\* invoked and awaited, or the loop and the try block end and the finally
\* block runs.
LoopHead(rec, r, i, cs) ==
    IF LoopCond(i, rec.n)
    THEN [run      |-> [rec EXCEPT !.i = i, !.pc = "callAPI"],
          calls    |-> IssueCall(cs, r, i, rec.question),
          finished |-> FALSE]
    ELSE [run      |-> [rec EXCEPT !.i = i, !.pc = "done", !.outcome = "completed"],
          calls    |-> cs,
          finished |-> TRUE]

\* the invocations of handleSubmit that are suspended at an await
LiveRuns == {id \in DOMAIN runs : runs[id].pc # "done"}

\* the history of the invocations that are still suspended
LiveCalls == SelectSeq(calls, LAMBDA c : c.run \in LiveRuns)

(***************************************************************************)
(* findConsensus (components/TDSExamHelper.jsx) and findConsensusAnswer    *)
(* (main.jsx).  The counts object is modelled as the sequence of its own   *)
(* properties in creation order, each with its key and its group.          *)
(***************************************************************************)
\* slice(0, 100) in findConsensus
ComponentPrefix == 100

\* substring(0, 200) in findConsensusAnswer
MainPrefix == 200

\* s.slice(0, n) and s.substring(0, n) for n >= 0
Prefix(s, n) == SubSeq(s, 1, IF Len(s) < n THEN Len(s) ELSE n)

\* variation: the key keeps the letter case of the answer
NormalKey_CaseKept(v, a) ==
    IF v = "component"
    THEN Prefix(a.parsed.answer, ComponentPrefix)
    ELSE Prefix(Trim(a.parsed.answer), MainPrefix)

\* the property key computed for attempt a
NormalKey(v, a) ==
    IF v = "component"
    THEN Prefix(ToLowerCase(a.parsed.answer), ComponentPrefix)
    ELSE Prefix(Trim(ToLowerCase(a.parsed.answer)), MainPrefix)

\* `if (!normalized) return;` of main.jsx; the component has no such line
Skipped(v, key) == v = "main" /\ key = <<>>

\* the counts object after the grouping loop has handled the first k attempts
RECURSIVE Grouped(_, _, _)
Grouped(v, list, k) ==
    IF k = 0 THEN <<>>
    ELSE LET before == Grouped(v, list, k - 1)
             a      == list[k]
             key    == NormalKey(v, a)
         IN  IF Skipped(v, key) THEN before
             ELSE IF \E g \in DOMAIN before : before[g].key = key
             THEN [g \in DOMAIN before |->
                     IF before[g].key = key
                     THEN [before[g] EXCEPT !.group = Append(@, a)]
                     ELSE before[g]]
             ELSE Append(before, [key |-> key, group |-> <<a>>])

DigitChars == <<"0", "1", "2", "3", "4", "5", "6", "7", "8", "9">>

\* the value of one digit character
DigitValue(c) == CHOOSE d \in 0..9 : DigitChars[d + 1] = c

\* a < b for two numbers written in canonical decimal form (no leading zero)
NumeralLess(a, b) ==
    \/ Len(a) < Len(b)
    \/ /\ Len(a) = Len(b)
       /\ \E k \in DOMAIN a :
             /\ \A j \in 1..(k - 1) : a[j] = b[j]
             /\ DigitValue(a[k]) < DigitValue(b[k])

\* largest array index of ECMAScript, 2^32 - 2, in decimal form
MaxArrayIndex == <<"4", "2", "9", "4", "9", "6", "7", "2", "9", "4">>

\* the key is an array index: the canonical decimal form of an integer in
\* 0..2^32-2.  Such properties are enumerated first, in ascending order.
IsArrayIndex(key) ==
    /\ key # <<>>
    /\ \A k \in DOMAIN key : \E d \in DOMAIN DigitChars : DigitChars[d] = key[k]
    /\ (key[1] = "0" => Len(key) = 1)
    /\ ~NumeralLess(MaxArrayIndex, key)

\* Object.values(counts): positions of props in enumeration order, array
\* indices ascending first, then the other keys in creation order
ValuesOrder(props) ==
    LET idx    == {g \in DOMAIN props : IsArrayIndex(props[g].key)}
        Rank(g) ==
            IF g \in idx
            THEN 1 + Cardinality({h \in idx :
                                    NumeralLess(props[h].key, props[g].key)})
            ELSE Cardinality(idx)
                 + 1 + Cardinality({h \in DOMAIN props \ idx : h < g})
    IN  [k \in DOMAIN props |-> CHOOSE g \in DOMAIN props : Rank(g) = k]

\* the value of a variable holding null
Null == [null |-> TRUE]

\* variation: the scan raises max but keeps the first group's attempt as best
RECURSIVE Scan_BestNotUpdated(_, _, _)
Scan_BestNotUpdated(props, order, k) ==
    IF k = 0 THEN [best |-> Null, max |-> 0]
    ELSE LET sofar == Scan_BestNotUpdated(props, order, k - 1)
             group == props[order[k]].group
         IN  IF Len(group) > sofar.max
             THEN [best |-> IF sofar.best = Null THEN group[1] ELSE sofar.best,
                   max  |-> Len(group)]
             ELSE sofar

\* the scan for the largest group over the first k groups of the
\* enumeration: a group replaces the best one only if it is strictly larger
RECURSIVE Scan(_, _, _)
Scan(props, order, k) ==
    IF k = 0 THEN [best |-> Null, max |-> 0]
    ELSE LET sofar == Scan(props, order, k - 1)
             group == props[order[k]].group
         IN  IF Len(group) > sofar.max
             THEN [best |-> group[1], max |-> Len(group)]
             ELSE sofar

\* Math.ceil(n / 2)
CeilHalf(n) == (n + 1) \div 2

\* findConsensus() / findConsensusAnswer() over the attempts state `list`
FindConsensus(v, list) ==
    IF Len(list) = 0 THEN Null
    ELSE LET props == Grouped(v, list, Len(list))
             res   == Scan(props, ValuesOrder(props), Len(props))
         IN  [answer      |-> res.best,
              agreement   |-> res.max,
              total       |-> Len(list),
              isConsensus |-> res.max >= CeilHalf(Len(list))]

(***************************************************************************)
(* Initial state: the component right after mounting.                      *)
(***************************************************************************)
Init ==
    /\ variant \in Variants
    /\ apiKey \in BOOLEAN
    /\ question = <<>>
    /\ numAttempts = DefaultAttempts
    /\ attempts = <<>>
    /\ loading = FALSE
    /\ error = ""
    /\ runs = <<>>
    /\ calls = <<>>
    /\ submits = 0
    /\ submitted = [question |-> <<>>, numAttempts |-> DefaultAttempts,
                    shown |-> 0]

(***************************************************************************)
(* UI events.                                                              *)
(***************************************************************************)
\* onChange of the textarea: setQuestion(e.target.value)
SetQuestion(q) ==
    /\ ~InputsDisabled
    /\ question' = q
    /\ UNCHANGED <<variant, apiKey, numAttempts, attempts, loading, error,
                   runs, calls, submits, submitted>>

\* onChange of the select: setNumAttempts(Number(e.target.value))
SetNumAttempts(v) ==
    /\ ~InputsDisabled
    /\ numAttempts' = v
    /\ UNCHANGED <<variant, apiKey, question, attempts, loading, error,
                   runs, calls, submits, submitted>>

\* variation: the list is cleared before the question is looked at
Submit_ClearsBeforeCheck ==
    /\ ~SubmitDisabled
    /\ submits < MaxSubmits
    /\ submits' = submits + 1
    /\ submitted' = [question |-> question, numAttempts |-> numAttempts,
                     shown |-> Len(attempts)]
    /\ IF QuestionBlank(question)
       THEN /\ error' = ValidationMessage
            /\ attempts' = ClearedAttempts
            /\ UNCHANGED <<loading, runs, calls>>
       ELSE LET r    == submits + 1
                rec0 == [pc |-> "start", i |-> 0, results |-> <<>>,
                         n |-> numAttempts, question |-> question,
                         outcome |-> "none"]
                h    == LoopHead(rec0, r, 1, LiveCalls)
            IN  /\ loading' = ~h.finished
                /\ error' = ""
                /\ attempts' = ClearedAttempts
                /\ runs' = [id \in LiveRuns \cup {r} |->
                                IF id = r THEN h.run ELSE runs[id]]
                /\ calls' = h.calls
    /\ UNCHANGED <<variant, apiKey, question, numAttempts>>

(***************************************************************************)
(* handleSubmit, one action per segment between awaits.                    *)
(***************************************************************************)
\* onClick of the submit button: handleSubmit up to its first await
\* (callAPI(1) is entered) or, for a blank question, to its return.
Submit ==
    /\ ~SubmitDisabled
    /\ submits < MaxSubmits
    /\ submits' = submits + 1
    /\ submitted' = [question |-> question, numAttempts |-> numAttempts,
                     shown |-> Len(attempts)]
    /\ IF QuestionBlank(question)
       THEN /\ error' = ValidationMessage
            /\ UNCHANGED <<attempts, loading, runs, calls>>
       ELSE LET r    == submits + 1
                rec0 == [pc |-> "start", i |-> 0, results |-> <<>>,
                         n |-> numAttempts, question |-> question,
                         outcome |-> "none"]
                h    == LoopHead(rec0, r, 1, LiveCalls)
            IN  /\ loading' = ~h.finished
                /\ error' = ""
                /\ attempts' = ClearedAttempts
                /\ runs' = [id \in LiveRuns \cup {r} |->
                                IF id = r THEN h.run ELSE runs[id]]
                /\ calls' = h.calls
    /\ UNCHANGED <<variant, apiKey, question, numAttempts>>

\* callAPI(i) of run r returns `text`: parse, push, publish, then either the
\* pacing timer is awaited or the loop goes on to its head.
CallAPIReturns(r, text) ==
    /\ runs[r].pc = "callAPI"
    /\ apiKey
    /\ LET rec      == runs[r]
           results2 == PushResult(rec.results, rec.i, text)
           rec2     == [rec EXCEPT !.results = results2]
           cs       == SettleCall(calls, r, rec.i, "ok", "none")
           h        == LoopHead(rec2, r, rec.i + 1, cs)
       IN  /\ attempts' = Publish(results2)
           /\ IF NeedsPause(rec.i, rec.n)
              THEN /\ runs' = [runs EXCEPT ![r] = [rec2 EXCEPT !.pc = "timer"]]
                   /\ calls' = cs
                   /\ UNCHANGED loading
              ELSE /\ runs' = [runs EXCEPT ![r] = h.run]
                   /\ calls' = h.calls
                   /\ loading' = IF h.finished THEN FALSE ELSE loading
    /\ UNCHANGED <<variant, apiKey, question, numAttempts, error, submits,
                   submitted>>

\* variation: the catch block also clears the published list
CallAPIThrows_Rollback(r, kind) ==
    /\ runs[r].pc = "callAPI"
    /\ kind \in ThrowKinds
    /\ error' = ShownError(variant, ErrMessage(variant, kind))
    /\ loading' = FALSE
    /\ attempts' = <<>>
    /\ runs' = [runs EXCEPT ![r] = [@ EXCEPT !.pc = "done", !.outcome = "failed"]]
    /\ calls' = SettleCall(calls, r, runs[r].i, "failed", kind)
    /\ UNCHANGED <<variant, apiKey, question, numAttempts, submits, submitted>>

\* variation: the catch block does not call setError
CallAPIThrows_Silent(r, kind) ==
    /\ runs[r].pc = "callAPI"
    /\ kind \in ThrowKinds
    /\ loading' = FALSE
    /\ runs' = [runs EXCEPT ![r] = [@ EXCEPT !.pc = "done", !.outcome = "failed"]]
    /\ calls' = SettleCall(calls, r, runs[r].i, "failed", kind)
    /\ UNCHANGED <<variant, apiKey, question, numAttempts, attempts, submits,
                   submitted, error>>

\* variation: a call that throws is issued again instead of ending the run
CallAPIThrows_Retry(r, kind) ==
    /\ runs[r].pc = "callAPI"
    /\ kind \in ThrowKinds
    /\ error' = ShownError(variant, ErrMessage(variant, kind))
    /\ calls' = IssueCall(SettleCall(calls, r, runs[r].i, "failed", kind),
                          r, runs[r].i, runs[r].question)
    /\ UNCHANGED <<variant, apiKey, question, numAttempts, attempts, loading,
                   runs, submits, submitted>>

\* callAPI(i) of run r throws: the catch block, then the finally block.
CallAPIThrows(r, kind) ==
    /\ runs[r].pc = "callAPI"
    /\ kind \in ThrowKinds
    /\ error' = ShownError(variant, ErrMessage(variant, kind))
    /\ loading' = FALSE
    /\ runs' = [runs EXCEPT ![r] = [@ EXCEPT !.pc = "done", !.outcome = "failed"]]
    /\ calls' = SettleCall(calls, r, runs[r].i, "failed", kind)
    /\ UNCHANGED <<variant, apiKey, question, numAttempts, attempts, submits,
                   submitted>>

\* the 500 ms timer of run r fires: i++ and the loop head.
TimerFires(r) ==
    /\ runs[r].pc = "timer"
    /\ LET h == LoopHead(runs[r], r, runs[r].i + 1, calls)
       IN  /\ runs' = [runs EXCEPT ![r] = h.run]
           /\ calls' = h.calls
           /\ loading' = IF h.finished THEN FALSE ELSE loading
    /\ UNCHANGED <<variant, apiKey, question, numAttempts, attempts, error,
                   submits, submitted>>

Next ==
    \/ \E q \in Questions : SetQuestion(q)
    \/ \E v \in AttemptOptions : SetNumAttempts(v)
    \/ Submit
    \/ \E r \in DOMAIN runs, text \in Responses : CallAPIReturns(r, text)
    \/ \E r \in DOMAIN runs, kind \in FetchFailures \cup {"auth"} : CallAPIThrows(r, kind)
    \/ \E r \in DOMAIN runs : TimerFires(r)

Spec == Init /\ [][Next]_vars

(***************************************************************************)
(* The same machine with the scheduling the environment provides: a        *)
(* pending callAPI promise is eventually settled (fetch resolves or        *)
(* rejects) and a timer that was set eventually fires.  User events carry  *)
(* no fairness.                                                            *)
(***************************************************************************)
\* the pending callAPI of some run returns or throws
CallSettles ==
    \E r \in DOMAIN runs :
        \/ \E text \in Responses : CallAPIReturns(r, text)
        \/ \E kind \in FetchFailures \cup {"auth"} : CallAPIThrows(r, kind)

\* the pacing timer of some run fires
TimerElapses == \E r \in DOMAIN runs : TimerFires(r)

FairSpec == Spec /\ WF_vars(CallSettles) /\ WF_vars(TimerElapses)

(***************************************************************************)
(* handleSubmit over every attempt count.  setNumAttempts stores whatever  *)
(* number the change event carries and handleSubmit reads numAttempts      *)
(* without looking at it; only the three <option>s keep the value to 2, 3  *)
(* or 5.  SpecAnyCount lets the change event carry any count in            *)
(* 0..MaxCount, which shows what handleSubmit does with the counts the     *)
(* select never produces.                                                  *)
(***************************************************************************)
AnyCounts == 0..MaxCount

NextAnyCount ==
    \/ \E q \in Questions : SetQuestion(q)
    \/ \E v \in AnyCounts : SetNumAttempts(v)
    \/ Submit
    \/ \E r \in DOMAIN runs, text \in Responses : CallAPIReturns(r, text)
    \/ \E r \in DOMAIN runs, kind \in FetchFailures \cup {"auth"} : CallAPIThrows(r, kind)
    \/ \E r \in DOMAIN runs : TimerFires(r)

SpecAnyCount == Init /\ [][NextAnyCount]_vars

(***************************************************************************)
(* The component with a key, a question and a service that answers with    *)
(* texts in the format the prompt asks for.  Every call returns, so the    *)
(* published lists are the lists of parsed attempts the aggregator is      *)
(* rendered with.  MaxConsensusSubmits bounds the handleSubmit             *)
(* invocations.                                                            *)
(***************************************************************************)
MaxConsensusSubmits == 1

\* a response text that ends with **FINAL ANSWER:** followed by `ans`
Answering(ans) == FinalMarker \o <<" ">> \o ans

Paris == <<"P", "a", "r", "i", "s">>

London == <<"L", "o", "n", "d", "o", "n">>

\* texts extractResponseText hands back: four with a final answer (one of
\* them in lower case with a space after it, one a numeral) and one
\* without the marker
ConsensusResponses ==
    { Answering(Paris),
      Answering(ToLowerCase(Paris) \o <<" ">>),
      Answering(London),
      Answering(<<"7">>),
      <<"n", "o">> }

InitConsensus == Init /\ apiKey

NextConsensus ==
    \/ SetQuestion(<<"q">>)
    \/ \E v \in AttemptOptions : SetNumAttempts(v)
    \/ (submits < MaxConsensusSubmits /\ Submit)
    \/ \E r \in DOMAIN runs, text \in ConsensusResponses : CallAPIReturns(r, text)
    \/ \E r \in DOMAIN runs : TimerFires(r)

SpecConsensus == InitConsensus /\ [][NextConsensus]_vars

\* const consensus = findConsensus(), evaluated at every render
Consensus == FindConsensus(variant, attempts)

(***************************************************************************)
(* The component with a key and a question, and a service whose first      *)
(* answer of a run is any text put together from at most MaxParts pieces   *)
(* (the two markers, a space, a line break, a letter) or one of a few      *)
(* longer texts in the format the prompt asks for; every later call of     *)
(* the run fails.  The published attempt then shows what parseAnswer       *)
(* makes of the text.                                                      *)
(***************************************************************************)
MaxParts == 3

MaxParseSubmits == 1

\* the pieces a response text is put together from
Pieces == { FinalMarker, ConfidenceLabel, <<" ">>, <<"\n">>, <<"a">> }

\* the text made of the pieces of `parts`, in order
RECURSIVE Flatten(_)
Flatten(parts) ==
    IF parts = <<>> THEN <<>> ELSE Head(parts) \o Flatten(Tail(parts))

SomeReasoning ==
    <<"S", "o", "m", "e", " ", "r", "e", "a", "s", "o", "n", "i", "n", "g", ".">>

\* <reasoning>, blank line, marker, <answer>, line break, Confidence: <label>
Formatted(reasoning, ans, label) ==
    reasoning \o <<"\n", "\n">> \o FinalMarker \o <<" ">> \o ans
        \o <<"\n">> \o ConfidenceLabel \o <<" ">> \o label

Reasonings == { SomeReasoning, <<"a", " ", "b">>, <<" ", "a", "\n", "b">> }

AnswerTexts == { <<"4", "2">>, London, <<"a", " ", "b", " ">> }

Labels == { <<"H", "i", "g", "h">>, <<"L", "o", "w", " ">> }

\* the responses in the requested format
FormattedTexts ==
    { Formatted(re, an, la) : re \in Reasonings, an \in AnswerTexts, la \in Labels }

\* texts in which the marker is followed by a blank line or by the
\* Confidence line, or comes in lower case
EdgeTexts ==
    { FinalMarker \o <<"\n", "\n", "a">>,
      FinalMarker \o <<" ", "a", "\n", "\n", "b">>,
      FinalMarker \o <<"\n">> \o ConfidenceLabel \o <<" ", "a">>,
      FinalMarker \o <<" ", "a", " ">> \o ToLowerCase(ConfidenceLabel) \o <<" ", "b">>,
      <<"a", "\n">> \o ToLowerCase(FinalMarker) \o <<" ", "b">> }

\* texts extractResponseText hands back for the first call of a run
ParseTexts ==
    { Flatten(parts) : parts \in UNION { [1..n -> Pieces] : n \in 0..MaxParts } }
        \cup FormattedTexts \cup EdgeTexts

NextParse ==
    \/ SetQuestion(<<"q">>)
    \/ \E v \in AttemptOptions : SetNumAttempts(v)
    \/ (submits < MaxParseSubmits /\ Submit)
    \/ \E r \in DOMAIN runs, text \in ParseTexts :
          runs[r].i = 1 /\ CallAPIReturns(r, text)
    \/ \E r \in DOMAIN runs, kind \in FetchFailures : CallAPIThrows(r, kind)
    \/ \E r \in DOMAIN runs : TimerFires(r)

SpecParse == InitConsensus /\ [][NextParse]_vars

(***************************************************************************)
(* Vocabulary of the properties.                                           *)
(***************************************************************************)
\* a text with nothing but white space in it (the empty text included)
AllWhiteSpace(q) == \A k \in DOMAIN q : q[k] \in WhiteSpace

\* the history entries of run r
CallsOf(cs, r) == SelectSeq(cs, LAMBDA c : c.run = r)

\* this step invokes handleSubmit
SubmitStep == submits' = submits + 1

\* this step ends run r (its finally block runs)
Finishes(r) ==
    /\ r \in DOMAIN runs'
    /\ runs'[r].pc = "done"
    /\ r \in DOMAIN runs => runs[r].pc # "done"

\* the attemptNum values of a list, in list order
AttemptNums(list) == [j \in DOMAIN list |-> list[j].attemptNum]

\* 1, 2, ..., n
OneTo(n) == [j \in 1..n |-> j]

\* message m is what error e shows, as it is or behind the "Error: " label
Shows(e, m) == e = m \/ e = "Error: " \o m

(***************************************************************************)
(* C1. When a run ends and none of its model calls failed, the published   *)
(* list holds exactly n attempts numbered 1, 2, ..., n in that order (n    *)
(* the attempt count the run was started with), loading is false and the   *)
(* error is empty.                                                         *)
(***************************************************************************)
C1_SuccessfulRunPublishesAll ==
    [][\A r \in DOMAIN runs' :
          (/\ Finishes(r)
           /\ runs'[r].n >= 1
           /\ \A k \in DOMAIN calls' :
                 calls'[k].run = r => calls'[k].status = "ok")
          => /\ AttemptNums(attempts') = OneTo(runs'[r].n)
             /\ Len(attempts') = runs'[r].n
             /\ loading' = FALSE
             /\ error' = ""]_vars

\* a run of five attempts has ended with all five published
C1_Witness ==
    \E r \in DOMAIN runs :
        /\ runs[r].pc = "done"
        /\ \A k \in DOMAIN calls : calls[k].status = "ok"
        /\ runs[r].n = 5
        /\ ~AllWhiteSpace(submitted.question)
        /\ AttemptNums(attempts) = OneTo(5)
        /\ ~loading
        /\ error = ""

(***************************************************************************)
(* C2. When the model call of attempt k of a run is the first to fail, the *)
(* run ends with exactly the k-1 attempts collected before it still        *)
(* published, the error that was thrown shown, and loading false; and the  *)
(* history never holds a call of that run with an index above k.           *)
(***************************************************************************)
C2_FailureKeepsCollected ==
    /\ [][\A r \in DOMAIN runs' : \A k \in DOMAIN calls' :
             (Finishes(r) /\ calls'[k].run = r /\ calls'[k].status = "failed")
             => /\ r \in DOMAIN runs
                /\ attempts' = runs[r].results
                /\ AttemptNums(attempts') = OneTo(calls'[k].attemptNum - 1)
                /\ Shows(error', ErrMessage(variant, calls'[k].err))
                /\ loading' = FALSE]_vars
    /\ [](\A k, m \in DOMAIN calls :
             (calls[k].status = "failed" /\ calls[m].run = calls[k].run)
             => /\ calls[m].attemptNum <= calls[k].attemptNum
                /\ calls[m].status # "pending")

\* attempt 2 of 3 failed: one attempt is published next to the error
C2_Witness ==
    \E r \in DOMAIN runs :
        /\ runs[r].pc = "done"
        /\ runs[r].n = 3
        /\ Len(CallsOf(calls, r)) = 2
        /\ CallsOf(calls, r)[1].status = "ok"
        /\ CallsOf(calls, r)[2].status = "failed"
        /\ Len(attempts) = 1
        /\ error # ""
        /\ ~loading

(***************************************************************************)
(* C3. A handleSubmit invocation that finds the question empty or made of  *)
(* white space only records the validation error, issues no model call,    *)
(* starts no run and leaves loading false.                                 *)
(***************************************************************************)
C3_BlankQuestionRejected ==
    [][(SubmitStep /\ AllWhiteSpace(question))
       => /\ error' = ValidationMessage
          /\ calls' = calls
          /\ runs' = runs
          /\ loading = FALSE /\ loading' = FALSE]_vars

\* a question of one space was submitted and rejected before any run
C3_Witness ==
    /\ submits = 1
    /\ submitted.question = <<" ">>
    /\ error = ValidationMessage
    /\ runs = <<>> /\ calls = <<>>
    /\ ~loading

C5_StrictlySequential ==
    /\ \A k, m \in DOMAIN calls :
          (calls[k].run = calls[m].run /\ calls[k].status = "pending"
              /\ calls[m].status = "pending") => k = m
    /\ \A k \in DOMAIN calls :
          calls[k].attemptNum > 1
          => /\ \E m \in 1..(k - 1) :
                   /\ calls[m].run = calls[k].run
                   /\ calls[m].attemptNum = calls[k].attemptNum - 1
                   /\ calls[m].status = "ok"
             /\ calls[k].run \in DOMAIN runs
             /\ Len(runs[calls[k].run].results) >= calls[k].attemptNum - 1
             /\ runs[calls[k].run].results[calls[k].attemptNum - 1].attemptNum
                    = calls[k].attemptNum - 1

\* the call of attempt 3 is pending, with attempts 1 and 2 settled before it
C5_Witness ==
    \E k \in DOMAIN calls :
        /\ calls[k].status = "pending"
        /\ calls[k].attemptNum = 3
        /\ Len(CallsOf(calls, calls[k].run)) = 3
        /\ Len(runs[calls[k].run].results) = 2

(***************************************************************************)
(* C6. Once a new run has started while an earlier run was still in        *)
(* flight, the published list holds only what the newest run collected.    *)
(* A finished run's frame is dropped when the next run starts, so two      *)
(* frames in `runs` mean that the older one was superseded in flight.      *)
(***************************************************************************)
\* the newest handleSubmit invocation that passed validation
LatestRun == CHOOSE r \in DOMAIN runs : \A o \in DOMAIN runs : o <= r

\* an earlier run was in flight when the newest run started
C6_Superseded == Cardinality(DOMAIN runs) >= 2

C6_StaleResponseDiscarded ==
    C6_Superseded => attempts = runs[LatestRun].results

\* no run is ever superseded in flight
C6_NeverSuperseded == ~C6_Superseded

(***************************************************************************)
(* C7. At most one run is active at any time: no two handleSubmit          *)
(* invocations are suspended inside their loops together, and no           *)
(* handleSubmit invocation happens while a run is active.                  *)
(***************************************************************************)
C7_AtMostOneActiveRun ==
    /\ [](Cardinality(LiveRuns) <= 1)
    /\ [][(loading \/ LiveRuns # {}) => ~SubmitStep]_vars

\* a run is active, clicks are left in the budget, and Submit is disabled
C7_Witness ==
    /\ loading
    /\ Cardinality(LiveRuns) = 1
    /\ submits < MaxSubmits
    /\ ~ENABLED Submit

(***************************************************************************)
(* C8. The published list is numbered 1, 2, 3, ... by position: the        *)
(* attempt at position j has attemptNum j.                                 *)
(***************************************************************************)
C8_PublishedContiguous ==
    \A j \in DOMAIN attempts : attempts[j].attemptNum = j

\* five attempts are published
C8_Witness ==
    /\ Len(attempts) = 5
    /\ attempts[5].attemptNum = 5

(***************************************************************************)
(* C9. Attempts are published one by one: every change of the published    *)
(* list either empties it at the start of a run or appends exactly one     *)
(* attempt to it, and while the call of attempt i+1 is pending exactly i   *)
(* attempts are published.                                                 *)
(***************************************************************************)
C9_ProgressivePublication ==
    /\ [][attempts' # attempts
            => \/ (SubmitStep /\ attempts' = <<>>)
               \/ /\ Len(attempts') = Len(attempts) + 1
                  /\ SubSeq(attempts', 1, Len(attempts)) = attempts]_vars
    /\ [](\A k \in DOMAIN calls :
             calls[k].status = "pending"
             => Len(attempts) = calls[k].attemptNum - 1)

\* two different answers are published and the run pauses before attempt 3
C9_Witness ==
    \E r \in DOMAIN runs :
        /\ runs[r].pc = "timer"
        /\ Len(attempts) = 2
        /\ attempts[1].response # attempts[2].response
        /\ \A k \in DOMAIN calls : calls[k].attemptNum <= 2

(***************************************************************************)
(* C10. A run invokes the model at most once per attempt index and at most *)
(* n times in all; a call that failed is the last call of its run.         *)
(***************************************************************************)
C10_NoRetry ==
    /\ \A k, m \in DOMAIN calls :
          (calls[k].run = calls[m].run
              /\ calls[k].attemptNum = calls[m].attemptNum) => k = m
    /\ \A r \in DOMAIN runs : Len(CallsOf(calls, r)) <= runs[r].n
    /\ \A k, m \in DOMAIN calls :
          (calls[k].status = "failed" /\ calls[m].run = calls[k].run) => m <= k
    /\ \A k \in DOMAIN calls :
          calls[k].status = "failed"
          => calls[k].run \in DOMAIN runs /\ runs[calls[k].run].pc = "done"

\* the third of five calls failed with a service error and was the last
C10_Witness ==
    \E r \in DOMAIN runs :
        /\ runs[r].n = 5
        /\ Len(CallsOf(calls, r)) = 3
        /\ CallsOf(calls, r)[3].status = "failed"
        /\ CallsOf(calls, r)[3].err = "service"
        /\ ~loading

(***************************************************************************)
(* C11. A pacing pause separates consecutive attempts: the step in which   *)
(* the call of attempt i < n returns leaves the run waiting for its timer  *)
(* and issues no call, the call of attempt i+1 is issued only by the step  *)
(* in which that timer fires, and the step in which the call of the last   *)
(* attempt (i = n) returns ends the run without a pause.                   *)
(***************************************************************************)
\* this step is the return of the pending call of attempt i of run r
Returns(r, i) ==
    \E k \in DOMAIN calls :
        /\ calls[k].run = r /\ calls[k].attemptNum = i
        /\ calls[k].status = "pending"
        /\ k \in DOMAIN calls' /\ calls'[k].status = "ok"

C11_PacingPause ==
    [][\A r \in DOMAIN runs :
          /\ \A i \in 1..runs[r].n :
                Returns(r, i)
                => IF i < runs[r].n
                   THEN /\ runs'[r].pc = "timer"
                        /\ Len(calls') = Len(calls)
                        /\ loading'
                   ELSE /\ runs'[r].pc = "done"
                        /\ ~loading'
          /\ (r \in DOMAIN runs' /\ Len(CallsOf(calls', r)) > Len(CallsOf(calls, r)))
                => /\ runs[r].pc = "timer"
                   /\ runs'[r].pc = "callAPI"]_vars

\* attempt 2 of 3 is published and the run waits for its timer
C11_Witness ==
    \E r \in DOMAIN runs :
        /\ runs[r].n = 3
        /\ runs[r].pc = "timer"
        /\ Len(attempts) = 2
        /\ Len(CallsOf(calls, r)) = 2
        /\ loading

(***************************************************************************)
(* C12. Under FairSpec every run that passed validation ends: whenever     *)
(* loading is true (a run is Running) it eventually is false again with    *)
(* no run suspended; and loading turns from false to true only in a step   *)
(* that invokes handleSubmit.                                              *)
(***************************************************************************)
C12_RunTerminates ==
    /\ (loading \/ LiveRuns # {}) ~> (~loading /\ LiveRuns = {})
    /\ [][(~loading /\ loading') => SubmitStep]_vars
    /\ [][\A r \in DOMAIN runs :
             (runs[r].pc = "done" /\ r \in DOMAIN runs') => runs'[r].pc = "done"]_vars

\* a run of five attempts has ended after a failure of its fourth call
C12_Witness ==
    \E r \in DOMAIN runs :
        /\ runs[r].n = 5
        /\ runs[r].pc = "done"
        /\ Len(CallsOf(calls, r)) = 4
        /\ CallsOf(calls, r)[4].status = "failed"
        /\ ~loading
        /\ LiveRuns = {}

(***************************************************************************)
(* C13. The published list is always the list of results the present run   *)
(* has collected itself, so it never holds an attempt of an earlier run;   *)
(* while the first call of a run is pending the published list is empty;   *)
(* and the step that starts a run empties the list in the same step that   *)
(* issues the first call.                                                  *)
(***************************************************************************)
C13_ListClearedOnRun ==
    /\ [](\A r \in DOMAIN runs :
             /\ attempts = runs[r].results
             /\ (runs[r].pc = "callAPI" /\ runs[r].i = 1) => attempts = <<>>)
    /\ [][(SubmitStep /\ ~QuestionBlank(question))
             => /\ attempts' = <<>>
                /\ \A r \in DOMAIN runs' : runs'[r].results = <<>>]_vars

\* a run started while two attempts of the run before it were on screen,
\* and its first call is pending
C13_Witness ==
    \E r \in DOMAIN runs :
        /\ submitted.shown = 2
        /\ runs[r].pc = "callAPI"
        /\ runs[r].i = 1
        /\ attempts = <<>>
        /\ loading

\* this step is the failure of the pending call of run r with error `kind`
Fails(r, kind) ==
    \E k \in DOMAIN calls :
        /\ calls[k].run = r
        /\ calls[k].status = "pending"
        /\ k \in DOMAIN calls' /\ calls'[k].status = "failed"
        /\ calls'[k].err = kind

(***************************************************************************)
(* C14. The step in which a call of a run fails sets the displayed error   *)
(* to exactly the message of the thrown error, and leaves the attempts     *)
(* collected so far on screen.  Violated in the variant whose catch block  *)
(* prefixes the message.                                                   *)
(***************************************************************************)
C14_ErrorVerbatim ==
    [][\A r \in DOMAIN runs : \A kind \in FetchFailures \cup {"auth"} :
          Fails(r, kind)
          => /\ error' = ErrMessage(variant, kind)
             /\ attempts' = runs[r].results]_vars

\* the attempts are kept in both variants and the message is the thrown one
\* up to the prefix
C14_MessageShownUpToPrefix ==
    [][\A r \in DOMAIN runs : \A kind \in FetchFailures \cup {"auth"} :
          Fails(r, kind)
          => /\ Shows(error', ErrMessage(variant, kind))
             /\ attempts' = runs[r].results]_vars

\* the answers of the published attempts, in order
Answers == [k \in DOMAIN attempts |-> attempts[k].parsed.answer]

\* the answer after lower-casing, trimming and cutting to the prefix length
\* of the variant
Normalized(ans) ==
    Prefix(Trim(ToLowerCase(ans)),
           IF variant = "component" THEN ComponentPrefix ELSE MainPrefix)

(***************************************************************************)
(* C15. Whenever the published list is not empty and all its answers are   *)
(* equal after normalization (all empty included), the aggregator reports  *)
(* an agreement equal to the length of the list and isConsensus = TRUE.    *)
(***************************************************************************)
C15_UnanimousIsConsensus ==
    (/\ attempts # <<>>
     /\ \A j, k \in DOMAIN attempts :
           Normalized(Answers[j]) = Normalized(Answers[k]))
    => /\ Consensus.agreement = Len(attempts)
       /\ Consensus.isConsensus

\* the same for lists whose common normalized answer is not empty
C15_UnanimousNonEmpty ==
    (/\ attempts # <<>>
     /\ \A j, k \in DOMAIN attempts :
           Normalized(Answers[j]) = Normalized(Answers[k])
     /\ Normalized(Answers[1]) # <<>>)
    => /\ Consensus.agreement = Len(attempts)
       /\ Consensus.isConsensus

\* the response texts of the published attempts, in order
ResponseTexts == [k \in DOMAIN attempts |-> attempts[k].response]

\* four attempts whose texts give the answers "Paris", "paris " (with the
\* space), "London" and "Paris" after the marker
ParisList ==
    ResponseTexts = << Answering(Paris),
                       Answering(ToLowerCase(Paris) \o <<" ">>),
                       Answering(London),
                       Answering(Paris) >>

Groups == Grouped(variant, attempts, Len(attempts))

\* attempts a and b are members of one group of the counts object gs
SameGroup(gs, a, b) ==
    \E g \in DOMAIN gs :
        /\ \E m \in DOMAIN gs[g].group : gs[g].group[m] = a
        /\ \E m \in DOMAIN gs[g].group : gs[g].group[m] = b

(***************************************************************************)
(* C17. Two published attempts are in the same group of the aggregator if  *)
(* and only if their answers are equal after lower-casing, trimming and    *)
(* cutting to the prefix length.                                           *)
(***************************************************************************)
C17_GroupedIffNormalizedEqual ==
    LET gs == Groups
    IN  \A j, k \in DOMAIN attempts :
            j # k => (SameGroup(gs, attempts[j], attempts[k])
                        <=> Normalized(Answers[j]) = Normalized(Answers[k]))

\* the same for pairs of attempts whose normalized answers are not empty
C17_GroupedIffNonEmpty ==
    LET gs == Groups
    IN  \A j, k \in DOMAIN attempts :
            (/\ j # k
             /\ Normalized(Answers[j]) # <<>>
             /\ Normalized(Answers[k]) # <<>>)
            => (SameGroup(gs, attempts[j], attempts[k])
                  <=> Normalized(Answers[j]) = Normalized(Answers[k]))

\* the groups of gs that have the largest size
Largest(gs) ==
    {g \in DOMAIN gs : \A h \in DOMAIN gs : Len(gs[h].group) <= Len(gs[g].group)}

(***************************************************************************)
(* C18. When two or more groups tie for the largest size, the              *)
(* representative is the first attempt of the tied group that was created  *)
(* first; numeral keys are no exception.                                   *)
(***************************************************************************)
C18_TieGoesToFirstInserted ==
    LET gs == Groups
    IN  Cardinality(Largest(gs)) >= 2
        => Consensus.answer = gs[Min(Largest(gs))].group[1]

\* the same for ties in which no tied group has an array-index key
C18_TieWithoutNumerals ==
    LET gs == Groups
    IN  (/\ Cardinality(Largest(gs)) >= 2
         /\ \A g \in Largest(gs) : ~IsArrayIndex(gs[g].key))
        => Consensus.answer = gs[Min(Largest(gs))].group[1]

\* the published attempts whose normalized answer is that of attempt k
ClassOf(k) ==
    {j \in DOMAIN attempts : Normalized(Answers[j]) = Normalized(Answers[k])}

(***************************************************************************)
(* C19. For a non-empty published list the representative is one of the    *)
(* attempts, no set of attempts with a common normalized answer is larger  *)
(* than the representative's, and no attempt with the representative's     *)
(* normalized answer has a lower attemptNum.                               *)
(***************************************************************************)
C19_RepresentativeOfLargest ==
    attempts # <<>>
    => \E k \in DOMAIN attempts :
          /\ Consensus.answer = attempts[k]
          /\ \A j \in DOMAIN attempts :
                Cardinality(ClassOf(j)) <= Cardinality(ClassOf(k))
          /\ \A j \in ClassOf(k) :
                attempts[k].attemptNum <= attempts[j].attemptNum

\* the same for lists without an empty answer
C19_RepresentativeNoEmpty ==
    (/\ attempts # <<>>
     /\ \A j \in DOMAIN attempts : Normalized(Answers[j]) # <<>>)
    => \E k \in DOMAIN attempts :
          /\ Consensus.answer = attempts[k]
          /\ \A j \in DOMAIN attempts :
                Cardinality(ClassOf(j)) <= Cardinality(ClassOf(k))
          /\ \A j \in ClassOf(k) :
                attempts[k].attemptNum <= attempts[j].attemptNum

\* the published attempts whose normalized answer is empty
EmptyAnswers == {k \in DOMAIN attempts : Normalized(Answers[k]) = <<>>}

(***************************************************************************)
(* C20. The attempts with an empty normalized answer form the group of     *)
(* the empty key, and when they outnumber every other group the            *)
(* aggregator reports their number as agreement and one of them as         *)
(* representative.                                                         *)
(***************************************************************************)
C20_EmptyAnswersCount ==
    EmptyAnswers # {}
    => /\ \E g \in DOMAIN Groups :
             /\ Groups[g].key = <<>>
             /\ Len(Groups[g].group) = Cardinality(EmptyAnswers)
       /\ (\A j \in DOMAIN attempts \ EmptyAnswers :
              Cardinality(ClassOf(j)) < Cardinality(EmptyAnswers))
          => /\ Consensus.agreement = Cardinality(EmptyAnswers)
             /\ \E k \in EmptyAnswers : Consensus.answer = attempts[k]

\* the same for findConsensus of components/TDSExamHelper.jsx alone
C20_ComponentCountsEmpty ==
    variant = "component" => C20_EmptyAnswersCount

(***************************************************************************)
(* C21. For a non-empty published list the aggregator's total is the       *)
(* length of the list, 0 <= agreement <= total, and the agreement is the   *)
(* size of the group that holds the representative (0 when no group        *)
(* exists and the representative is null).                                 *)
(***************************************************************************)
C21_AgreementBounds ==
    attempts # <<>>
    => LET gs == Groups
           c  == Consensus
       IN  /\ c.total = Len(attempts)
           /\ 0 <= c.agreement
           /\ c.agreement <= c.total
           /\ IF c.answer = Null
              THEN c.agreement = 0
              ELSE \E g \in DOMAIN gs :
                      /\ \E m \in DOMAIN gs[g].group : gs[g].group[m] = c.answer
                      /\ c.agreement = Len(gs[g].group)

\* three attempts are published, two of them in the representative's group,
\* which is not the group created first
C21_Witness ==
    /\ Len(attempts) = 3
    /\ Consensus.agreement = 2
    /\ Consensus.total = 3
    /\ Consensus.answer = attempts[2]

\* the literal lit occurs somewhere in s, letter case ignored
Occurs(s, lit) == \E p \in 1..Len(s) : MatchesAt(s, p, lit)

(***************************************************************************)
(* C22 with an empty confidence. Every published attempt whose response    *)
(* has no **FINAL ANSWER:** marker has answer "", confidence "" and the    *)
(* whole response, trimmed, as analysis.                                   *)
(***************************************************************************)
C22_NoMarkerAllEmpty ==
    \A k \in DOMAIN attempts :
        ~Occurs(attempts[k].response, FinalMarker)
        => /\ attempts[k].parsed.answer = <<>>
           /\ attempts[k].parsed.confidence = <<>>
           /\ attempts[k].parsed.analysis = Trim(attempts[k].response)

(***************************************************************************)
(* C22 with the confidence read on its own. Every published attempt whose  *)
(* response has no **FINAL ANSWER:** marker has answer "" and the whole    *)
(* response, trimmed, as analysis; its confidence is "" when the response  *)
(* has no Confidence: label either.                                        *)
(***************************************************************************)
C22_NoMarkerNoAnswer ==
    \A k \in DOMAIN attempts :
        ~Occurs(attempts[k].response, FinalMarker)
        => /\ attempts[k].parsed.answer = <<>>
           /\ attempts[k].parsed.analysis = Trim(attempts[k].response)
           /\ ~Occurs(attempts[k].response, ConfidenceLabel)
                 => attempts[k].parsed.confidence = <<>>

\* a response without the marker, with white space around its text and
\* with a Confidence: label, has been parsed: the confidence is not empty
C22_Witness ==
    \E k \in DOMAIN attempts :
        /\ ~Occurs(attempts[k].response, FinalMarker)
        /\ Occurs(attempts[k].response, ConfidenceLabel)
        /\ attempts[k].response[1] \in WhiteSpace
        /\ attempts[k].parsed.answer = <<>>
        /\ attempts[k].parsed.confidence = <<"a">>

(***************************************************************************)
(* C23. A published attempt whose response is <reasoning>, blank line,     *)
(* **FINAL ANSWER:** <answer>, line break, Confidence: <label> has the     *)
(* trimmed reasoning as analysis, the trimmed answer as answer and the     *)
(* trimmed label as confidence; for "Some reasoning.", "42", "High" these  *)
(* are exactly the three texts.                                            *)
(***************************************************************************)
C23_FormattedResponseParsed ==
    \A k \in DOMAIN attempts :
        /\ \A re \in Reasonings, an \in AnswerTexts, la \in Labels :
              attempts[k].response = Formatted(re, an, la)
              => /\ attempts[k].parsed.analysis = Trim(re)
                 /\ attempts[k].parsed.answer = Trim(an)
                 /\ attempts[k].parsed.confidence = Trim(la)
        /\ attempts[k].response
              = Formatted(SomeReasoning, <<"4", "2">>, <<"H", "i", "g", "h">>)
           => /\ attempts[k].parsed.analysis = SomeReasoning
              /\ attempts[k].parsed.answer = <<"4", "2">>
              /\ attempts[k].parsed.confidence = <<"H", "i", "g", "h">>

\* the response of the example has been parsed and published
C23_Witness ==
    \E k \in DOMAIN attempts :
        /\ attempts[k].response
              = Formatted(SomeReasoning, <<"4", "2">>, <<"H", "i", "g", "h">>)
        /\ attempts[k].parsed.answer = <<"4", "2">>
        /\ attempts[k].parsed.fullText = attempts[k].response

\* the literal lit occurs somewhere in s, letter for letter
Contains(s, lit) ==
    \E p \in 1..Len(s) :
        /\ p + Len(lit) - 1 <= Len(s)
        /\ \A k \in 1..Len(lit) : s[p + k - 1] = lit[k]

(***************************************************************************)
(* C25. In every published attempt whose response has the                  *)
(* **FINAL ANSWER:** marker, the answer has no blank line and no           *)
(* "Confidence:" in it.                                                    *)
(***************************************************************************)
C25_AnswerStopsAtDelimiters ==
    \A k \in DOMAIN attempts :
        Occurs(attempts[k].response, FinalMarker)
        => /\ ~Contains(attempts[k].parsed.answer, <<"\n", "\n">>)
           /\ ~Contains(attempts[k].parsed.answer, ConfidenceLabel)

\* the part of the claim about blank lines alone
C25_AnswerHasNoBlankLine ==
    \A k \in DOMAIN attempts :
        ~Contains(attempts[k].parsed.answer, <<"\n", "\n">>)

\* an answer holds Confidence: only as its first text
C25_ConfidenceOnlyInFront ==
    \A k \in DOMAIN attempts :
        ~Occurs(Tail(attempts[k].parsed.answer \o <<"a">>), ConfidenceLabel)

(***************************************************************************)
(* C24. Every request in the call history is the one built from the        *)
(* question of its run and from whether its attempt number is above 1:     *)
(* its input ends with the verification directive exactly when the         *)
(* attempt number is above 1, the temperature of attempt 1 is below that   *)
(* of every later attempt, and any two attempts after the first of one     *)
(* run carry the same request.                                             *)
(***************************************************************************)
C24_RequestDependsOnQuestionAndFirst ==
    \A k \in DOMAIN calls :
        calls[k].request # NoRequest
        => LET c == calls[k]
           IN  /\ c.run \in DOMAIN runs
               /\ c.request
                    = BuildRequest(variant, runs[c.run].question,
                                   IF c.attemptNum > 1 THEN 2 ELSE 1)
               /\ c.request.input[3] = runs[c.run].question
               /\ (c.request.input[5] = VerificationDirective(variant))
                     <=> c.attemptNum > 1
               /\ (c.request.input[5] = "") <=> c.attemptNum = 1
               /\ \A j \in DOMAIN calls :
                     (calls[j].run = c.run /\ calls[j].request # NoRequest)
                     => /\ (c.attemptNum = 1 /\ calls[j].attemptNum >= 2)
                              => c.request.temperature
                                    < calls[j].request.temperature
                        /\ (c.attemptNum >= 2 /\ calls[j].attemptNum >= 2)
                              => c.request = calls[j].request

\* a run has sent three requests after two attempts with different texts
C24_Witness ==
    \E r \in DOMAIN runs :
        /\ Len(CallsOf(calls, r)) = 3
        /\ CallsOf(calls, r)[3].request # NoRequest
        /\ CallsOf(calls, r)[3].attemptNum = 3
        /\ Len(attempts) = 2
        /\ attempts[1].response # attempts[2].response

C27_BlankSubmitChangesOnlyError ==
    [][(SubmitStep /\ QuestionBlank(question))
          => /\ error' = ValidationMessage
             /\ attempts' = attempts
             /\ \A after \in {attempts'} :
                   FindConsensus(variant, after) = Consensus
             /\ loading' = loading
             /\ UNCHANGED <<runs, calls, question, numAttempts>>]_vars

\* a blank question was submitted while two attempts of an earlier run
\* were on screen: they are still there, next to the validation message
C27_Witness ==
    /\ QuestionBlank(submitted.question)
    /\ submitted.shown = 2
    /\ Len(attempts) = 2
    /\ Consensus # Null
    /\ error = ValidationMessage
    /\ ~loading

(***************************************************************************)
(* C28. The consensus counts the published attempts, not the requested     *)
(* ones: its total is the length of the published list, and whenever       *)
(* exactly one attempt is published it reports agreement 1 of 1 and        *)
(* isConsensus = TRUE.                                                     *)
(***************************************************************************)
C28_SingleAttemptIsConsensus ==
    /\ attempts # <<>> => Consensus.total = Len(attempts)
    /\ Len(attempts) = 1
          => /\ Consensus.agreement = 1
             /\ Consensus.total = 1
             /\ Consensus.isConsensus

\* the same when the answer of the one attempt is not empty
C28_SingleAnswerIsConsensus ==
    /\ attempts # <<>> => Consensus.total = Len(attempts)
    /\ (Len(attempts) = 1 /\ Normalized(Answers[1]) # <<>>)
          => /\ Consensus.agreement = 1
             /\ Consensus.total = 1
             /\ Consensus.isConsensus

\* three attempts with three different answers are published while the run
\* is going on: the consensus that was reported for the first of them alone
\* is gone
C28_ConsensusLost ==
    /\ loading
    /\ Len(attempts) = 3
    /\ \A k \in DOMAIN attempts : Normalized(Answers[k]) # <<>>
    /\ Consensus.agreement = 1
    /\ ~Consensus.isConsensus

====
